---- MODULE Spec2Model ----
(***************************************************************************)
(* Model of the COVID-19 ETL pipeline of covid_etl:                        *)
(*   load_data -> merging_datasets (data_standarization + inner join)      *)
(*             -> calculate_per_capita -> visualize_results.               *)
(* Tables are pandas DataFrames: a header (the label each column carries)  *)
(* and a sequence of rows.  Numbers that pandas holds as float64 are kept  *)
(* as integers: a rate is a number of hundredths, with NaN and Inf as      *)
(* distinguished values compared the IEEE way.                             *)
(***************************************************************************)
EXTENDS Integers, Sequences, FiniteSets, TLC

VARIABLES pc, files, population_df, covid_df, merged_df, per_capita_df,
          files_read, written, error, estd, std_calls, cs, sel

vars == <<pc, files, population_df, covid_df, merged_df, per_capita_df,
          files_read, written, error, estd, std_calls, cs, sel>>

(***************************************************************************)
(* Bounds of the model.                                                    *)
(***************************************************************************)
MaxPopRows == 2
MaxCaseRows == 2
MaxMergedRows == 3
MaxStdCalls == 2
MaxStdRows == 1
MaxDatedRows == 3
MaxEntries == 4
MaxRounds == 3
MaxColumnRows == 1
MaxMainRows == 1

(***************************************************************************)
(* Distinguished values.                                                   *)
(***************************************************************************)
\* a missing numeric cell (float NaN, datetime NaT)
NaN == -1
\* a missing cell of a column of strings
NA == "NaN"
\* float infinity: larger than every finite rate
Inf == 2147483647
\* no DataFrame bound to the name
NoTable == [cols |-> <<>>, rows |-> <<>>, none |-> TRUE]
\* a path with no file behind it
NoFile == [cols |-> <<>>, rows |-> <<>>, missing |-> TRUE]
\* column_standardization not entered: no caller waits for it, no dataframe
\* is chosen, no data_standarization frame is open, no entry was read
NoPrompt == [caller |-> "", choice |-> 0, depth |-> 0, rounds |-> 0]
\* data_selection not entered
NoSelection == [listing |-> <<>>, population_data |-> "", covid_data |-> "",
                last |-> "", entries |-> 0, selected |-> 0,
                population_data_dir |-> "", covid_data_dir |-> ""]
\* no exception raised
NoError == [kind |-> "", arg |-> ""]
Raise(kind, arg) == [kind |-> kind, arg |-> arg]

\* variant: the caller catches what a step raises and goes on
StepResult_goes_on(err, next) == next

\* where the caller is after a step: no step is wrapped in try, so what a
\* step raises ends the run
StepResult(err, next) == IF err = NoError THEN next ELSE "failed"

PopulationPath == "data/world_population.csv"
CovidPath == "data/countries-aggregated.csv"
MergedPath == "data/merged_covid_population.csv"
PerCapitaPath == "data/covid_cases_per_100k.csv"
BarplotPath == "plots/covid_cases_per_100k_barplot.png"

(***************************************************************************)
(* data_merging.py: the corrections table.                                 *)
(***************************************************************************)
corrections ==
    [n \in {"US", "Korea, South", "Burma", "Czechia", "Taiwan*",
            "Cote d'Ivoire", "Congo (Brazzaville)", "Congo (Kinshasa)",
            "West Bank and Gaza", "Cape Verde"} |->
        CASE n = "US" -> "United States"
          [] n = "Korea, South" -> "South Korea"
          [] n = "Burma" -> "Myanmar"
          [] n = "Czechia" -> "Czech Republic"
          [] n = "Taiwan*" -> "Taiwan"
          [] n = "Cote d'Ivoire" -> "Ivory Coast"
          [] n = "Congo (Brazzaville)" -> "Republic of the Congo"
          [] n = "Congo (Kinshasa)" -> "DR Congo"
          [] n = "West Bank and Gaza" -> "Palestine"
          [] n = "Cape Verde" -> "Cabo Verde"]

common_aliases == <<"Country/Territory", "Country Name", "Region", "Nation">>

\* Country names in code point order (the order Python compares str), used
\* where pandas sorts group keys.
NameOrder ==
    <<"Albania", "Burma", "Cabo Verde", "Cape Verde", "Congo",
      "Congo (Brazzaville)", "Congo (Kinshasa)", "Cote d'Ivoire",
      "Czech Republic", "Czechia", "DR Congo", "Ivory Coast", "Korea, South",
      "Myanmar", "Palestine", "Republic of the Congo", "South Korea",
      "Taiwan", "Taiwan*", "US", "US ", "United States",
      "West Bank and Gaza", "Zambia", "us">>

AllNames == {NameOrder[i] : i \in DOMAIN NameOrder}

NameRank(n) == CHOOSE i \in DOMAIN NameOrder : NameOrder[i] = n

(***************************************************************************)
(* Sequences helpers.                                                      *)
(***************************************************************************)
SeqsUpTo(S, n) == UNION {[1..k -> S] : k \in 0..n}

RECURSIVE Concat(_)
Concat(ss) == IF ss = <<>> THEN <<>> ELSE Head(ss) \o Concat(Tail(ss))

(***************************************************************************)
(* DataFrame columns: cols maps each column (by the role it has in the     *)
(* file) to the label it currently carries; rename changes labels only.    *)
(***************************************************************************)
Table(cols, rows) == [cols |-> cols, rows |-> rows]

Columns(df) == {df.cols[r] : r \in DOMAIN df.cols}

HasColumn(df, label) == label \in Columns(df)

\* df.rename(columns={old: new}, inplace=True)
Rename(df, old, new) ==
    [df EXCEPT !.cols = [r \in DOMAIN df.cols |->
                            IF df.cols[r] = old THEN new ELSE df.cols[r]]]

\* the column (role) carrying a label
ColumnOf(df, label) == CHOOSE r \in DOMAIN df.cols : df.cols[r] = label

\* the value a row holds in the column carrying a label
Cell(df, row, label) == row[ColumnOf(df, label)]

(***************************************************************************)
(* data_exploration.py: load_data.  Both paths are tested for existence    *)
(* before either file is read; read lists the files read, in order.        *)
(***************************************************************************)
\* variant: the population file is read before the case path is tested
load_data_read_first(fs, population_data_dir, covid_data_dir) ==
    IF fs[population_data_dir] = NoFile
    THEN [error |-> Raise("FileNotFoundError", population_data_dir),
          read |-> <<>>, population_df |-> NoTable, covid_df |-> NoTable]
    ELSE IF fs[covid_data_dir] = NoFile
    THEN [error |-> Raise("FileNotFoundError", covid_data_dir),
          read |-> <<population_data_dir>>,
          population_df |-> fs[population_data_dir], covid_df |-> NoTable]
    ELSE [error |-> NoError,
          read |-> <<population_data_dir, covid_data_dir>>,
          population_df |-> fs[population_data_dir],
          covid_df |-> fs[covid_data_dir]]

load_data(fs, population_data_dir, covid_data_dir) ==
    IF fs[population_data_dir] = NoFile
    THEN [error |-> Raise("FileNotFoundError", population_data_dir),
          read |-> <<>>, population_df |-> NoTable, covid_df |-> NoTable]
    ELSE IF fs[covid_data_dir] = NoFile
    THEN [error |-> Raise("FileNotFoundError", covid_data_dir),
          read |-> <<>>, population_df |-> NoTable, covid_df |-> NoTable]
    ELSE [error |-> NoError,
          read |-> <<population_data_dir, covid_data_dir>>,
          population_df |-> fs[population_data_dir],
          covid_df |-> fs[covid_data_dir]]

(***************************************************************************)
(* data_merging.py: data_standarization.                                   *)
(***************************************************************************)
\* lines 114-120: rename the first alias present to 'Country'
RECURSIVE FirstAlias(_, _)
FirstAlias(df, i) ==
    IF i > Len(common_aliases) THEN NA
    ELSE IF HasColumn(df, common_aliases[i]) THEN common_aliases[i]
    ELSE FirstAlias(df, i + 1)

AutoRename(df) ==
    IF HasColumn(df, "Country") \/ FirstAlias(df, 1) = NA THEN df
    ELSE Rename(df, FirstAlias(df, 1), "Country")

\* line 122
NeedsColumnChoice(p, c) == ~HasColumn(p, "Country") \/ ~HasColumn(c, "Country")

\* variant: the table also holds a reverse entry 'United States' -> 'US'
MapCorrections_reverse_entry(v) ==
    IF v \in DOMAIN corrections THEN corrections[v]
    ELSE IF v = "United States" THEN "US" ELSE NA

\* variant: keys are matched ignoring case and surrounding blanks
MapCorrections_fuzzy(v) ==
    IF v \in DOMAIN corrections THEN corrections[v]
    ELSE IF v \in {"us", "US "} THEN corrections["US"] ELSE NA

\* Series.map(corrections): a value that is no key of the dict becomes missing
MapCorrections(v) == IF v \in DOMAIN corrections THEN corrections[v] ELSE NA

\* Series.fillna(other): a missing value is taken from other
FillNa(v, other) == IF v = NA THEN other ELSE v

\* variant: the corrections are applied to the column the file held the
\* country names in, whatever column is labelled 'Country' now
StandardizeCountry_first_column(df) ==
    [df EXCEPT !.rows = [i \in DOMAIN df.rows |->
        [df.rows[i] EXCEPT !.Country = FillNa(MapCorrections(df.rows[i].Country),
                                             df.rows[i].Country)]]]

\* df['Country'] = df['Country'].map(corrections).fillna(df['Country'])
StandardizeCountry(df) ==
    LET c == ColumnOf(df, "Country") IN
    [df EXCEPT !.rows = [i \in DOMAIN df.rows |->
        [df.rows[i] EXCEPT ![c] = FillNa(MapCorrections(df.rows[i][c]),
                                         df.rows[i][c])]]]

\* two columns carry the label 'Country'
Dup(df) == Cardinality({r \in DOMAIN df.cols : df.cols[r] = "Country"}) > 1

\* df['Country'].map(corrections) when df['Country'] is a frame of two
\* columns: a pandas without DataFrame.map raises AttributeError; a pandas
\* with it (modern) returns a copy of a frame without rows and raises
\* TypeError for the dict otherwise
MapOnFrame(df, modern) ==
    IF modern /\ df.rows = <<>> THEN NoError
    ELSE Raise(IF modern THEN "TypeError" ELSE "AttributeError", "map")

\* lines 126-127, the population table first
ApplyCorrections(p, c, modern) ==
    IF Dup(p) /\ MapOnFrame(p, modern) # NoError
    THEN [error |-> MapOnFrame(p, modern), population_df |-> p, covid_df |-> c]
    ELSE LET p2 == IF Dup(p) THEN p ELSE StandardizeCountry(p) IN
         IF Dup(c) /\ MapOnFrame(c, modern) # NoError
         THEN [error |-> MapOnFrame(c, modern), population_df |-> p2, covid_df |-> c]
         ELSE [error |-> NoError, population_df |-> p2,
               covid_df |-> IF Dup(c) THEN c ELSE StandardizeCountry(c)]

\* lines 126-127 as executed by the innermost data_standarization and then
\* by every data_standarization that called column_standardization
RECURSIVE Unwind(_, _, _, _)
Unwind(p, c, frames, modern) ==
    IF frames = 0
    THEN [error |-> NoError, population_df |-> p, covid_df |-> c]
    ELSE LET r == ApplyCorrections(p, c, modern) IN
         IF r.error # NoError THEN r
         ELSE Unwind(r.population_df, r.covid_df, frames - 1, modern)

\* column_standardization, lines 78-81, entered from the data_standarization
\* at the given depth: the rename, the nested data_standarization and, when
\* it prompts no further, the return through all callers
column_standardization(p, c, choice, column_name, depth, modern) ==
    LET p1 == AutoRename(IF choice = 1 THEN Rename(p, column_name, "Country") ELSE p)
        c1 == AutoRename(IF choice = 2 THEN Rename(c, column_name, "Country") ELSE c)
    IN  IF NeedsColumnChoice(p1, c1)
        THEN [error |-> NoError, population_df |-> p1, covid_df |-> c1,
              prompt |-> TRUE]
        ELSE [error |-> Unwind(p1, c1, depth + 2, modern).error,
              population_df |-> Unwind(p1, c1, depth + 2, modern).population_df,
              covid_df |-> Unwind(p1, c1, depth + 2, modern).covid_df,
              prompt |-> FALSE]

(***************************************************************************)
(* data_merging.py: the inner join of merging_datasets, line 162.  The     *)
(* result keeps the order of the left (case) rows; a case row is paired    *)
(* with every population row of the same key, in population order.         *)
(***************************************************************************)
MergeReady(p, c) ==
    HasColumn(p, "Country") /\ HasColumn(p, "2022 Population")
        /\ HasColumn(c, "Country")

MatchesOf(crow, c, p) ==
    SelectSeq(p.rows, LAMBDA prow :
        Cell(p, prow, "Country") = Cell(c, crow, "Country"))

JoinRow(crow, prow, p) ==
    [r \in DOMAIN crow \cup {"Population"} |->
        IF r = "Population" THEN Cell(p, prow, "2022 Population") ELSE crow[r]]

\* variant: how='left', a case row without a match is kept with no population
LeftJoin(c, p) ==
    Table([r \in DOMAIN c.cols \cup {"Population"} |->
               IF r = "Population" THEN "2022 Population" ELSE c.cols[r]],
          Concat([i \in DOMAIN c.rows |->
               IF MatchesOf(c.rows[i], c, p) = <<>>
               THEN <<[r \in DOMAIN c.rows[i] \cup {"Population"} |->
                          IF r = "Population" THEN NaN ELSE c.rows[i][r]]>>
               ELSE [j \in DOMAIN MatchesOf(c.rows[i], c, p) |->
                   JoinRow(c.rows[i], MatchesOf(c.rows[i], c, p)[j], p)]]))

InnerJoin(c, p) ==
    Table([r \in DOMAIN c.cols \cup {"Population"} |->
               IF r = "Population" THEN "2022 Population" ELSE c.cols[r]],
          Concat([i \in DOMAIN c.rows |->
               [j \in DOMAIN MatchesOf(c.rows[i], c, p) |->
                   JoinRow(c.rows[i], MatchesOf(c.rows[i], c, p)[j], p)]]))

(***************************************************************************)
(* calculate_per_capita.py                                                 *)
(***************************************************************************)
\* pd.to_datetime(..., format='%Y-%m-%d'): the calendar value of a date
\* string, as the number yyyymmdd; a missing cell parses to NaT; any other
\* string raises ValueError.
DayNumber ==
    [s \in {"2021-01-01", "2021-01-02", "2021-01-03"} |->
        CASE s = "2021-01-01" -> 20210101
          [] s = "2021-01-02" -> 20210102
          [] s = "2021-01-03" -> 20210103]

\* variant: errors='coerce', a string that does not parse becomes NaT
Parseable_coerce(s) == TRUE

Parseable(s) == s = NA \/ s \in DOMAIN DayNumber

ToDatetime(s) == IF s \in DOMAIN DayNumber THEN DayNumber[s] ELSE NaN

PerHundredThousand == 100000
Hundredths == 100

RECURSIVE GCD(_, _)
GCD(a, b) == IF b = 0 THEN a ELSE GCD(b, a % b)

\* variant: the quotient is truncated to two decimals
Truncate(n, d) == n \div d

\* round(2): to the nearest hundredth, a tie to the even one
RoundHalfEven(n, d) ==
    LET q == n \div d
        r == n % d
    IN  IF 2 * r < d THEN q
        ELSE IF 2 * r > d THEN q + 1
        ELSE IF q % 2 = 0 THEN q ELSE q + 1

\* variant: a zero or missing population is guarded and gives the rate 0
CasesPer100k_guarded(confirmed, population) ==
    IF confirmed = NaN \/ population = NaN \/ population = 0 THEN 0
    ELSE LET g == GCD(PerHundredThousand * Hundredths, population)
         IN  RoundHalfEven(confirmed * ((PerHundredThousand * Hundredths) \div g),
                           population \div g)

\* ((Confirmed / Population) * 100000).round(2), in hundredths.  The quotient
\* is taken exactly, after cancelling the common factor of the scale and the
\* population; x/0 is inf, 0/0 and anything with a missing operand is NaN.
CasesPer100k(confirmed, population) ==
    IF confirmed = NaN \/ population = NaN THEN NaN
    ELSE IF population = 0 THEN (IF confirmed = 0 THEN NaN ELSE Inf)
    ELSE LET g == GCD(PerHundredThousand * Hundredths, population)
         IN  RoundHalfEven(confirmed * ((PerHundredThousand * Hundredths) \div g),
                           population \div g)

\* lines 72 and 78: the Date column parsed, the rate column added
WithRates(df) ==
    Table([r \in DOMAIN df.cols \cup {"Cases_per_100k"} |->
              IF r = "Cases_per_100k" THEN "Cases_per_100k" ELSE df.cols[r]],
          [i \in DOMAIN df.rows |->
              [r \in DOMAIN df.cols \cup {"Cases_per_100k"} |->
                  IF r = "Cases_per_100k"
                  THEN CasesPer100k(Cell(df, df.rows[i], "Confirmed"),
                                    Cell(df, df.rows[i], "2022 Population"))
                  ELSE IF r = ColumnOf(df, "Date")
                  THEN ToDatetime(df.rows[i][r])
                  ELSE df.rows[i][r]]])

\* groupby('Country'): the group keys, sorted; rows with a missing key are
\* in no group
GroupKeySet(df) == {Cell(df, df.rows[i], "Country") : i \in DOMAIN df.rows} \ {NA}

RECURSIVE SortedNames(_)
SortedNames(S) ==
    IF S = {} THEN <<>>
    ELSE LET m == CHOOSE n \in S : \A o \in S : NameRank(n) <= NameRank(o)
         IN  <<m>> \o SortedNames(S \ {m})

GroupRows(df, k) == {i \in DOMAIN df.rows : Cell(df, df.rows[i], "Country") = k}

DatedRows(df, k) == {i \in GroupRows(df, k) : Cell(df, df.rows[i], "Date") # NaN}

\* variant: the last of the rows holding the greatest date of the group
IdxMax_last_tie(df, k) ==
    CHOOSE i \in DatedRows(df, k) :
        /\ \A j \in DatedRows(df, k) :
              Cell(df, df.rows[j], "Date") <= Cell(df, df.rows[i], "Date")
        /\ \A j \in DatedRows(df, k) :
              Cell(df, df.rows[j], "Date") = Cell(df, df.rows[i], "Date") => j <= i

\* variant: the last row of the group (tail(1)) whatever its date
IdxLast(df, k) ==
    CHOOSE i \in GroupRows(df, k) : \A j \in GroupRows(df, k) : j <= i

\* ['Date'].idxmax(): the first row of the group holding its greatest date
IdxMax(df, k) ==
    CHOOSE i \in DatedRows(df, k) :
        /\ \A j \in DatedRows(df, k) :
              Cell(df, df.rows[j], "Date") <= Cell(df, df.rows[i], "Date")
        /\ \A j \in DatedRows(df, k) :
              Cell(df, df.rows[j], "Date") = Cell(df, df.rows[i], "Date") => i <= j

\* lines 84-86: df.loc[groupby('Country')['Date'].idxmax()]
LatestPerCountry(df) ==
    LET keys == SortedNames(GroupKeySet(df)) IN
    [df EXCEPT !.rows = [g \in DOMAIN keys |-> df.rows[IdxMax(df, keys[g])]]]

\* float comparison: false as soon as one side is NaN
Geq(a, b) == a # NaN /\ b # NaN /\ a >= b

Injections(n) == {f \in [1..n -> 1..n] : \A i, j \in 1..n : f[i] = f[j] => i = j}

\* line 90: sort_values(by='Cases_per_100k', ascending=False).  The default
\* kind is quicksort, which gives no order among equal keys: every order of
\* the rows that is descending in the rate is an outcome.  Rows with a NaN
\* rate are put last (na_position='last'), in the order they had.
SortOrders(rates) ==
    {f \in Injections(Len(rates)) :
        \A i, j \in DOMAIN rates : i < j =>
            /\ rates[f[i]] = NaN => rates[f[j]] = NaN
            /\ (rates[f[i]] # NaN /\ rates[f[j]] # NaN) => rates[f[i]] >= rates[f[j]]
            /\ (rates[f[i]] = NaN /\ rates[f[j]] = NaN) => f[i] < f[j]}

SortValues(df) ==
    LET rates == [i \in DOMAIN df.rows |-> Cell(df, df.rows[i], "Cases_per_100k")] IN
    {[df EXCEPT !.rows = [i \in DOMAIN df.rows |-> df.rows[f[i]]]] :
        f \in SortOrders(rates)}

CalcReady(df) ==
    /\ HasColumn(df, "Date") /\ HasColumn(df, "Confirmed")
    /\ HasColumn(df, "2022 Population") /\ HasColumn(df, "Country")

\* variant: no copy is taken, lines 72 and 78 write into the caller's table
InputAfterCall_no_copy(df, working) == working

\* line 69: the work is done on merged_df.copy(); the caller's table keeps
\* its value whatever the working table has become
InputAfterCall(df, working) == df

\* calculate_per_capita: the outcomes of a call, each with the exception
\* raised (if any), the table returned, the tables written and the caller's
\* table after the call.
calculate_per_capita(df) ==
    IF ~CalcReady(df)
    THEN {[error |-> Raise("KeyError", "column"), returned |-> NoTable,
           written |-> <<>>, merged_df |-> InputAfterCall(df, df)]}
    ELSE IF \E i \in DOMAIN df.rows : ~Parseable(Cell(df, df.rows[i], "Date"))
    THEN {[error |-> Raise("ValueError", "Date"), returned |-> NoTable,
           written |-> <<>>, merged_df |-> InputAfterCall(df, df)]}
    ELSE IF \E k \in GroupKeySet(df) : DatedRows(WithRates(df), k) = {}
    THEN {[error |-> Raise("KeyError", "idxmax"), returned |-> NoTable,
           written |-> <<>>, merged_df |-> InputAfterCall(df, WithRates(df))]}
    ELSE {IF out.rows = <<>>
          THEN [error |-> Raise("IndexError", "iloc"), returned |-> NoTable,
                written |-> <<[path |-> PerCapitaPath, content |-> out]>>,
                merged_df |-> InputAfterCall(df, WithRates(df))]
          ELSE [error |-> NoError, returned |-> out,
                written |-> <<[path |-> PerCapitaPath, content |-> out]>>,
                merged_df |-> InputAfterCall(df, WithRates(df))] :
          out \in SortValues(LatestPerCountry(WithRates(df)))}

(***************************************************************************)
(* visualize_results.py: the chart of the first top_n rows.                *)
(***************************************************************************)
TopN == 10

Head_n(df, n) ==
    [df EXCEPT !.rows = SubSeq(df.rows, 1, IF Len(df.rows) < n THEN Len(df.rows) ELSE n)]

(***************************************************************************)
(* Input domains.                                                          *)
(***************************************************************************)
PopCols(label) == [Country |-> label, Population |-> "2022 Population"]
CovidCols == [Country |-> "Country", Date |-> "Date", Confirmed |-> "Confirmed"]
MergedCols == [Country |-> "Country", Date |-> "Date", Confirmed |-> "Confirmed",
               Population |-> "2022 Population"]

\* the pipeline: alternate and canonical spellings, and an unmatched country
PipelineNames == {"US", "United States", "Burma"}
PopCountryLabels == {"Country/Territory", "Country"}
PopRowDomain == [Country : PipelineNames, Population : {331000000, 3000000}]
CaseRowDomain == [Country : PipelineNames, Date : {"2021-01-01", "2021-01-02"},
                  Confirmed : {2000}]

PopFiles ==
    {Table(PopCols(l), rows) :
        l \in PopCountryLabels, rows \in SeqsUpTo(PopRowDomain, MaxPopRows)}
CaseFiles == {Table(CovidCols, rows) : rows \in SeqsUpTo(CaseRowDomain, MaxCaseRows)}

Idle ==
    /\ population_df = NoTable /\ covid_df = NoTable /\ merged_df = NoTable
    /\ per_capita_df = NoTable /\ files_read = <<>> /\ written = <<>>
    /\ error = NoError /\ estd = FALSE /\ std_calls = 0
    /\ cs = NoPrompt /\ sel = NoSelection

Init ==
    /\ pc = "start"
    /\ \E pf \in PopFiles \cup {NoFile}, cf \in CaseFiles \cup {NoFile} :
          files = [f \in {PopulationPath, CovidPath} |->
                      IF f = PopulationPath THEN pf ELSE cf]
    /\ Idle

(***************************************************************************)
(* Actions.                                                                *)
(***************************************************************************)
LoadData ==
    /\ pc = "start"
    /\ LET res == load_data(files, PopulationPath, CovidPath) IN
        /\ error' = res.error
        /\ files_read' = res.read
        /\ population_df' = res.population_df
        /\ covid_df' = res.covid_df
        /\ pc' = StepResult(res.error, "loaded")
    /\ UNCHANGED <<files, merged_df, per_capita_df, written, estd, std_calls, cs, sel>>

\* variant: the corrections are applied to the case table only
data_standarization_case_only(p, c) ==
    LET p1 == AutoRename(p)
        c1 == AutoRename(c)
    IN  IF NeedsColumnChoice(p1, c1)
        THEN [population_df |-> p1, covid_df |-> c1, prompt |-> TRUE]
        ELSE [population_df |-> p1,
              covid_df |-> StandardizeCountry(c1), prompt |-> FALSE]

\* data_standarization up to its return or to the prompt of
\* column_standardization: the tables after the call, and whether a column
\* choice is awaited
data_standarization(p, c) ==
    LET p1 == AutoRename(p)
        c1 == AutoRename(c)
    IN  IF NeedsColumnChoice(p1, c1)
        THEN [population_df |-> p1, covid_df |-> c1, prompt |-> TRUE]
        ELSE [population_df |-> StandardizeCountry(p1),
              covid_df |-> StandardizeCountry(c1), prompt |-> FALSE]

\* merging_datasets from line 161 on
merge_and_save(p, c) ==
    IF MergeReady(p, c) /\ (Dup(p) \/ Dup(c))
    THEN [error |-> Raise("ValueError", "Country"), merged_df |-> NoTable,
          written |-> <<>>]
    ELSE IF MergeReady(p, c)
    THEN [error |-> NoError, merged_df |-> InnerJoin(c, p),
          written |-> <<[path |-> MergedPath, content |-> InnerJoin(c, p)]>>]
    ELSE [error |-> Raise("KeyError", "Country"), merged_df |-> NoTable,
          written |-> <<>>]

merging_datasets(estandarized) ==
    /\  LET std == IF estandarized
                   THEN [population_df |-> population_df, covid_df |-> covid_df,
                         prompt |-> FALSE]
                   ELSE data_standarization(population_df, covid_df)
            res == merge_and_save(std.population_df, std.covid_df)
        IN  /\ estd' = estandarized
            /\ population_df' = std.population_df
            /\ covid_df' = std.covid_df
            /\ IF std.prompt
               THEN /\ pc' = "column_standardization"
                    /\ cs' = [NoPrompt EXCEPT !.caller = "merging_datasets"]
                    /\ UNCHANGED <<merged_df, written, error>>
               ELSE /\ merged_df' = res.merged_df
                    /\ written' = written \o res.written
                    /\ error' = res.error
                    /\ pc' = StepResult(res.error, "merged")
                    /\ UNCHANGED cs
    /\ UNCHANGED <<files, per_capita_df, files_read, std_calls, sel>>

\* merging_datasets called with either value of estandarized
MergingDatasets ==
    /\ pc = "loaded"
    /\ \E estandarized \in BOOLEAN : merging_datasets(estandarized)

CalculatePerCapita ==
    /\ pc = "merged"
    /\ \E res \in calculate_per_capita(merged_df) :
        /\ per_capita_df' = res.returned
        /\ merged_df' = res.merged_df
        /\ written' = written \o res.written
        /\ error' = res.error
        /\ pc' = StepResult(res.error, "calculated")
    /\ UNCHANGED <<files, population_df, covid_df, files_read, estd, std_calls,
                   cs, sel>>

VisualizeResults ==
    /\ pc = "calculated"
    /\ written' = Append(written, [path |-> BarplotPath,
                                   content |-> Head_n(per_capita_df, TopN)])
    /\ pc' = "done"
    /\ UNCHANGED <<files, population_df, covid_df, merged_df, per_capita_df,
                   files_read, error, estd, std_calls, cs, sel>>

Next == LoadData \/ MergingDatasets \/ CalculatePerCapita \/ VisualizeResults

Spec == Init /\ [][Next]_vars

(***************************************************************************)
(* data_standarization called on loaded tables, any number of times.       *)
(***************************************************************************)
StdNames == AllNames \cup {NA}
StdPopFiles ==
    {Table(PopCols(l), rows) :
        l \in PopCountryLabels,
        rows \in SeqsUpTo([Country : StdNames, Population : {331000000}], MaxStdRows)}
StdCaseFiles ==
    {Table(CovidCols, rows) :
        rows \in SeqsUpTo([Country : StdNames, Date : {"2021-01-01"},
                           Confirmed : {2000}], MaxStdRows)}

InitStd ==
    /\ pc = "loaded"
    /\ \E pf \in StdPopFiles, cf \in StdCaseFiles :
          /\ files = [f \in {PopulationPath, CovidPath} |->
                         IF f = PopulationPath THEN pf ELSE cf]
          /\ population_df = pf
          /\ covid_df = cf
    /\ files_read = <<PopulationPath, CovidPath>>
    /\ merged_df = NoTable /\ per_capita_df = NoTable /\ written = <<>>
    /\ error = NoError /\ estd = FALSE /\ std_calls = 0
    /\ cs = NoPrompt /\ sel = NoSelection

DataStandarizationCall ==
    /\ pc = "loaded"
    /\ std_calls < MaxStdCalls
    /\ LET std == data_standarization(population_df, covid_df) IN
        /\ population_df' = std.population_df
        /\ covid_df' = std.covid_df
        /\ pc' = IF std.prompt THEN "column_standardization" ELSE "loaded"
        /\ cs' = IF std.prompt
                 THEN [NoPrompt EXCEPT !.caller = "data_standarization"]
                 ELSE cs
    /\ std_calls' = std_calls + 1
    /\ UNCHANGED <<files, merged_df, per_capita_df, files_read, written, error, estd,
                   sel>>

NextStd == DataStandarizationCall

SpecStd == InitStd /\ [][NextStd]_vars

(***************************************************************************)
(* calculate_per_capita called on a merged table read from the merged      *)
(* file (the module's script mode).                                        *)
(***************************************************************************)
MergedRowDomain ==
    [Country : {"Myanmar", "United States"},
     Date : {"2021-01-01", "2021-01-02"},
     Confirmed : {2000, 2500},
     Population : {0, NaN, 331000000}]

MergedFiles ==
    {Table(MergedCols, rows) : rows \in SeqsUpTo(MergedRowDomain, MaxMergedRows)}

InitCalc ==
    /\ pc = "merged"
    /\ merged_df \in MergedFiles
    /\ files = [f \in {PopulationPath, CovidPath} |-> NoFile]
    /\ population_df = NoTable /\ covid_df = NoTable /\ per_capita_df = NoTable
    /\ files_read = <<MergedPath>> /\ written = <<>>
    /\ error = NoError /\ estd = FALSE /\ std_calls = 0
    /\ cs = NoPrompt /\ sel = NoSelection

NextCalc == CalculatePerCapita

SpecCalc == InitCalc /\ [][NextCalc]_vars

(***************************************************************************)
(* calculate_per_capita and visualize_results on a merged table whose      *)
(* Date cells may be missing or hold a string that is no YYYY-MM-DD date.  *)
(***************************************************************************)
DatedRowDomain ==
    [Country : {"Myanmar", "United States"},
     Date : {"2021-01-01", "2021-01-02", "01/02/2021", NA},
     Confirmed : {2000},
     Population : {331000000, 3000000}]

DatedFiles ==
    {Table(MergedCols, rows) : rows \in SeqsUpTo(DatedRowDomain, MaxDatedRows)}

InitDates ==
    /\ pc = "merged"
    /\ merged_df \in DatedFiles
    /\ files = [f \in {PopulationPath, CovidPath} |-> NoFile]
    /\ population_df = NoTable /\ covid_df = NoTable /\ per_capita_df = NoTable
    /\ files_read = <<MergedPath>> /\ written = <<>>
    /\ error = NoError /\ estd = FALSE /\ std_calls = 0
    /\ cs = NoPrompt /\ sel = NoSelection

NextDates == CalculatePerCapita \/ VisualizeResults

SpecDates == InitDates /\ [][NextDates]_vars

(***************************************************************************)
(* data_exploration.py: explore_data = data_selection, load_data,          *)
(* display_data_summary.  data_selection lists the CSV files of the data   *)
(* directory under the numbers 0, 1, ... and reads two entries; int() of   *)
(* an entry that is no number raises ValueError, a number that is not      *)
(* listed raises KeyError, and both are caught: the loop starts again at   *)
(* the population prompt.                                                  *)
(***************************************************************************)
Entries == {"-1", "0", "1", "2", "abc"}

\* int(entry), for the entries int() accepts
IntOf ==
    [e \in {"-1", "0", "1", "2"} |->
        CASE e = "-1" -> -1 [] e = "0" -> 0 [] e = "1" -> 1 [] e = "2" -> 2]

\* possible_csvs[int(entry)] raises neither ValueError nor KeyError
Listed(listing, e) == e \in DOMAIN IntOf /\ IntOf[e] \in 0..(Len(listing) - 1)

\* possible_csvs[int(entry)]
possible_csvs(listing, e) == listing[IntOf[e] + 1]

\* display_data_summary, lines 114-115: the columns it reads must exist
display_data_summary(p, c) ==
    IF ~HasColumn(p, "Country/Territory") THEN Raise("KeyError", "Country/Territory")
    ELSE IF ~HasColumn(c, "Country") THEN Raise("KeyError", "Country")
    ELSE NoError

\* explore_data once both entries are accepted
explore_data(fs, population_data_dir, covid_data_dir) ==
    LET res == load_data(fs, population_data_dir, covid_data_dir) IN
    IF res.error # NoError THEN res
    ELSE IF display_data_summary(res.population_df, res.covid_df) # NoError
    THEN [error |-> display_data_summary(res.population_df, res.covid_df),
          read |-> res.read, population_df |-> NoTable, covid_df |-> NoTable]
    ELSE res

\* variant: after an invalid entry the same prompt is shown again
NextPrompt_same_prompt(prompt, listed) ==
    IF ~listed THEN prompt
    ELSE IF prompt = "select_population" THEN "select_covid" ELSE "return"

\* the try block of lines 52-65: where data_selection goes after an entry
NextPrompt(prompt, listed) ==
    IF ~listed THEN "select_population"
    ELSE IF prompt = "select_population" THEN "select_covid" ELSE "return"

SelectPopulation ==
    /\ pc = "select_population"
    /\ sel.entries < MaxEntries
    /\ \E e \in Entries :
        /\ sel' = [sel EXCEPT !.population_data = e, !.last = e,
                              !.entries = sel.entries + 1,
                              !.selected = IF Listed(sel.listing, e)
                                           THEN sel.selected + 1 ELSE sel.selected]
        /\ pc' = NextPrompt(pc, Listed(sel.listing, e))
    /\ UNCHANGED <<files, population_df, covid_df, merged_df, per_capita_df,
                   files_read, written, error, estd, std_calls, cs>>

SelectCovid ==
    /\ pc = "select_covid"
    /\ sel.entries < MaxEntries
    /\ \E e \in Entries :
        /\ IF NextPrompt(pc, Listed(sel.listing, e)) # "return"
           THEN /\ sel' = [sel EXCEPT !.covid_data = e, !.last = e,
                                      !.entries = sel.entries + 1,
                                      !.selected = IF Listed(sel.listing, e)
                                                   THEN sel.selected + 1
                                                   ELSE sel.selected]
                /\ pc' = NextPrompt(pc, Listed(sel.listing, e))
                /\ UNCHANGED <<population_df, covid_df, files_read, error>>
           ELSE LET res == explore_data(files,
                               possible_csvs(sel.listing, sel.population_data),
                               possible_csvs(sel.listing, e))
                IN  /\ sel' = [sel EXCEPT
                              !.covid_data = e, !.last = e,
                              !.entries = sel.entries + 1,
                              !.selected = sel.selected + 1,
                              !.population_data_dir =
                                  possible_csvs(sel.listing, sel.population_data),
                              !.covid_data_dir = possible_csvs(sel.listing, e)]
                    /\ population_df' = res.population_df
                    /\ covid_df' = res.covid_df
                    /\ files_read' = res.read
                    /\ error' = res.error
                    /\ pc' = StepResult(res.error, "loaded")
    /\ UNCHANGED <<files, merged_df, per_capita_df, written, estd, std_calls, cs>>

ExploreFiles ==
    {Table(PopCols(l), rows) :
        l \in PopCountryLabels,
        rows \in SeqsUpTo([Country : {"US"}, Population : {331000000}], 1)}
    \cup {Table(CovidCols, rows) :
        rows \in SeqsUpTo([Country : {"US"}, Date : {"2021-01-01"},
                           Confirmed : {2000}], 1)}

InitExplore ==
    /\ pc = "select_population"
    /\ \E pf \in ExploreFiles, cf \in ExploreFiles :
          files = [f \in {PopulationPath, CovidPath} |->
                      IF f = PopulationPath THEN pf ELSE cf]
    /\ \E listing \in {<<PopulationPath, CovidPath>>, <<CovidPath, PopulationPath>>} :
          sel = [NoSelection EXCEPT !.listing = listing]
    /\ population_df = NoTable /\ covid_df = NoTable /\ merged_df = NoTable
    /\ per_capita_df = NoTable /\ files_read = <<>> /\ written = <<>>
    /\ error = NoError /\ estd = FALSE /\ std_calls = 0 /\ cs = NoPrompt

NextExplore == SelectPopulation \/ SelectCovid

SpecExplore == InitExplore /\ [][NextExplore]_vars

(***************************************************************************)
(* column_standardization: the loop of lines 60-84.  Each round reads a    *)
(* dataframe number and, when it is 1 or 2, a column name of that table.   *)
(* The tables here carry a second text column and may label their country  *)
(* column 'Name', which is neither 'Country' nor an alias.                 *)
(***************************************************************************)
\* the names typed at line 73: the text columns, and a name no table has
ColumnEntries == {"Country", "Name", "Continent", "Date", "Nope"}

CSChooseDataframe ==
    /\ pc = "column_standardization"
    /\ cs.rounds < MaxRounds
    /\ \E e \in Entries :
        IF e \in DOMAIN IntOf /\ IntOf[e] \in {1, 2}
        THEN /\ pc' = "column_name"
             /\ cs' = [cs EXCEPT !.choice = IntOf[e]]
        ELSE /\ pc' = "column_standardization"
             /\ cs' = [cs EXCEPT !.rounds = cs.rounds + 1]
    /\ UNCHANGED <<files, population_df, covid_df, merged_df, per_capita_df,
                   files_read, written, error, estd, std_calls, sel>>

CSEnterColumn ==
    /\ pc = "column_name"
    /\ \E column_name \in ColumnEntries, modern \in BOOLEAN :
        IF ~HasColumn(IF cs.choice = 1 THEN population_df ELSE covid_df, column_name)
        THEN /\ pc' = "column_standardization"
             /\ cs' = [cs EXCEPT !.rounds = cs.rounds + 1]
             /\ UNCHANGED <<population_df, covid_df, merged_df, written, error>>
        ELSE LET std == column_standardization(population_df, covid_df, cs.choice,
                                               column_name, cs.depth, modern)
                 res == merge_and_save(std.population_df, std.covid_df)
             IN  /\ population_df' = std.population_df
                 /\ covid_df' = std.covid_df
                 /\ cs' = [cs EXCEPT !.rounds = cs.rounds + 1,
                                     !.depth = IF std.prompt THEN cs.depth + 1
                                               ELSE cs.depth]
                 /\ IF std.prompt
                    THEN /\ pc' = "column_standardization"
                         /\ UNCHANGED <<merged_df, written, error>>
                    ELSE IF std.error # NoError
                    THEN /\ pc' = "failed"
                         /\ error' = std.error
                         /\ UNCHANGED <<merged_df, written>>
                    ELSE IF cs.caller = "data_standarization"
                    THEN /\ pc' = "loaded"
                         /\ UNCHANGED <<merged_df, written, error>>
                    ELSE /\ merged_df' = res.merged_df
                         /\ written' = written \o res.written
                         /\ error' = res.error
                         /\ pc' = StepResult(res.error, "merged")
    /\ UNCHANGED <<files, per_capita_df, files_read, estd, std_calls, sel>>

ColumnLabels == {"Country", "Country/Territory", "Name"}
ColumnPopFiles ==
    {Table([Country |-> l, Continent |-> "Continent", Population |-> "2022 Population"],
           rows) :
        l \in ColumnLabels,
        rows \in SeqsUpTo([Country : {"US"}, Continent : {"Asia", "Burma"},
                           Population : {331000000}], MaxColumnRows)}
ColumnCaseFiles ==
    {Table([Country |-> l, Date |-> "Date", Confirmed |-> "Confirmed"], rows) :
        l \in {"Country", "Name"},
        rows \in SeqsUpTo([Country : {"US"}, Date : {"2021-01-01"},
                           Confirmed : {2000}], MaxColumnRows)}

InitColumns ==
    /\ pc = "loaded"
    /\ \E pf \in ColumnPopFiles, cf \in ColumnCaseFiles :
          /\ files = [f \in {PopulationPath, CovidPath} |->
                         IF f = PopulationPath THEN pf ELSE cf]
          /\ population_df = pf
          /\ covid_df = cf
    /\ files_read = <<PopulationPath, CovidPath>>
    /\ merged_df = NoTable /\ per_capita_df = NoTable /\ written = <<>>
    /\ error = NoError /\ estd = FALSE /\ std_calls = 0
    /\ cs = NoPrompt /\ sel = NoSelection

NextColumns ==
    DataStandarizationCall \/ MergingDatasets \/ CSChooseDataframe \/ CSEnterColumn

SpecColumns == InitColumns /\ [][NextColumns]_vars

(***************************************************************************)
(* main.py: explore_data, merging_datasets(population_df, covid_df, False), *)
(* calculate_per_capita and visualize_results, in this order.  The data    *)
(* directory holds a population file and a case file; the user may select  *)
(* either file at either prompt.                                           *)
(***************************************************************************)
MainPopFiles ==
    {Table(PopCols(l), rows) :
        l \in PopCountryLabels,
        rows \in SeqsUpTo([Country : {"US", "United States"},
                           Population : {331000000}], MaxMainRows)}
MainCaseFiles ==
    {Table(CovidCols, rows) :
        rows \in SeqsUpTo([Country : {"US"}, Date : {"2021-01-01", "01/02/2021"},
                           Confirmed : {2000}], MaxMainRows)}

InitMain ==
    /\ pc = "select_population"
    /\ \E pf \in MainPopFiles, cf \in MainCaseFiles :
          files = [f \in {PopulationPath, CovidPath} |->
                      IF f = PopulationPath THEN pf ELSE cf]
    /\ \E listing \in {<<PopulationPath, CovidPath>>, <<CovidPath, PopulationPath>>} :
          sel = [NoSelection EXCEPT !.listing = listing]
    /\ population_df = NoTable /\ covid_df = NoTable /\ merged_df = NoTable
    /\ per_capita_df = NoTable /\ files_read = <<>> /\ written = <<>>
    /\ error = NoError /\ estd = FALSE /\ std_calls = 0 /\ cs = NoPrompt

\* line 74
MainMergingDatasets ==
    /\ pc = "loaded"
    /\ merging_datasets(FALSE)

NextMain ==
    \/ SelectPopulation
    \/ SelectCovid
    \/ MainMergingDatasets
    \/ CalculatePerCapita
    \/ VisualizeResults

SpecMain == InitMain /\ [][NextMain]_vars

(***************************************************************************)
(* Properties.                                                             *)
(***************************************************************************)
\* the canonical spelling of a raw name
Canonical(n) == IF n \in DOMAIN corrections THEN corrections[n] ELSE n

CountryNames(df) == {Cell(df, df.rows[i], "Country") : i \in DOMAIN df.rows}

RawCountry(path, i) == files[path].rows[i].Country

AfterMerge == pc \in {"merged", "calculated", "done"} \/ (pc = "failed" /\ merged_df # NoTable)

\* C1: name reconciliation is idempotent: once data_standarization has been
\* applied to the tables, applying it again changes no country name of the
\* population table or of the case table.
C1_ReconcileIdempotent ==
    [][(pc = "loaded" /\ std_calls >= 1 /\ pc' = "loaded") =>
          /\ \A i \in DOMAIN covid_df.rows :
                Cell(covid_df', covid_df'.rows[i], "Country")
                    = Cell(covid_df, covid_df.rows[i], "Country")
          /\ \A i \in DOMAIN population_df.rows :
                Cell(population_df', population_df'.rows[i], "Country")
                    = Cell(population_df, population_df.rows[i], "Country")]_vars

C1_Witness ==
    /\ pc = "loaded" /\ std_calls = 2
    /\ \E i \in DOMAIN covid_df.rows :
          /\ RawCountry(CovidPath, i) \in DOMAIN corrections
          /\ Cell(covid_df, covid_df.rows[i], "Country") # RawCountry(CovidPath, i)
    /\ \E i \in DOMAIN population_df.rows :
          RawCountry(PopulationPath, i) \notin DOMAIN corrections

\* C8: after reconciliation a name that is exactly a key of the corrections
\* table has become that key's value and every other name (a near miss such
\* as "us" or "US " included) is unchanged, in both tables and whatever else
\* the tables hold.
C8_ExactMatchOrIdentity ==
    (pc = "loaded" /\ std_calls >= 1) =>
        /\ \A i \in DOMAIN covid_df.rows :
              Cell(covid_df, covid_df.rows[i], "Country")
                  = (IF RawCountry(CovidPath, i) \in DOMAIN corrections
                     THEN corrections[RawCountry(CovidPath, i)]
                     ELSE RawCountry(CovidPath, i))
        /\ \A i \in DOMAIN population_df.rows :
              Cell(population_df, population_df.rows[i], "Country")
                  = (IF RawCountry(PopulationPath, i) \in DOMAIN corrections
                     THEN corrections[RawCountry(PopulationPath, i)]
                     ELSE RawCountry(PopulationPath, i))

C8_Witness ==
    /\ pc = "loaded" /\ std_calls = 1
    /\ \E i \in DOMAIN covid_df.rows :
          /\ RawCountry(CovidPath, i) = "us"
          /\ Cell(covid_df, covid_df.rows[i], "Country") = "us"
    /\ \E i \in DOMAIN population_df.rows :
          /\ RawCountry(PopulationPath, i) = "US"
          /\ Cell(population_df, population_df.rows[i], "Country") = "United States"

CountRows(rows, P(_)) == Cardinality({i \in DOMAIN rows : P(rows[i])})

\* C2: every merged row's country occurs in the reconciled case table and in
\* the reconciled population table; a country of the case table that the
\* population table lacks has no merged row and no row in the rate table
\* returned or written.
C2_JoinCorrectness ==
    AfterMerge =>
        /\ \A i \in DOMAIN merged_df.rows :
              /\ merged_df.rows[i].Country \in CountryNames(covid_df)
              /\ merged_df.rows[i].Country \in CountryNames(population_df)
        /\ \A n \in CountryNames(covid_df) \ CountryNames(population_df) :
              /\ \A i \in DOMAIN merged_df.rows : merged_df.rows[i].Country # n
              /\ \A w \in DOMAIN written : \A i \in DOMAIN written[w].content.rows :
                    written[w].content.rows[i].Country # n
              /\ per_capita_df # NoTable =>
                    \A i \in DOMAIN per_capita_df.rows :
                        per_capita_df.rows[i].Country # n

C2_Witness ==
    /\ pc = "done"
    /\ CountryNames(covid_df) \ CountryNames(population_df) # {}
    /\ merged_df.rows # <<>>
    /\ Len(merged_df.rows) < Len(covid_df.rows)

\* C3: the merge never fans out: no case row yields more than one merged
\* row, so the merged table holds no more rows with a given country, date
\* and count than the case table does.
C3_NoFanOut ==
    AfterMerge =>
        \A i \in DOMAIN merged_df.rows :
            CountRows(merged_df.rows, LAMBDA m :
                    /\ m.Country = merged_df.rows[i].Country
                    /\ m.Date = merged_df.rows[i].Date
                    /\ m.Confirmed = merged_df.rows[i].Confirmed)
              <= CountRows(covid_df.rows, LAMBDA c :
                    /\ c.Country = merged_df.rows[i].Country
                    /\ c.Date = merged_df.rows[i].Date
                    /\ c.Confirmed = merged_df.rows[i].Confirmed)

\* C9: when merging_datasets runs with estandarized=False, a case row and a
\* population row whose raw names have the same canonical spelling are
\* joined: the merged table holds the case row's date and count with the
\* population row's population under the canonical name.
C9_BothTablesReconciledBeforeJoin ==
    (AfterMerge /\ ~estd) =>
        \A i \in DOMAIN files[CovidPath].rows, j \in DOMAIN files[PopulationPath].rows :
            Canonical(RawCountry(CovidPath, i)) = Canonical(RawCountry(PopulationPath, j)) =>
                \E m \in DOMAIN merged_df.rows :
                    /\ merged_df.rows[m].Country = Canonical(RawCountry(CovidPath, i))
                    /\ merged_df.rows[m].Date = files[CovidPath].rows[i].Date
                    /\ merged_df.rows[m].Confirmed = files[CovidPath].rows[i].Confirmed
                    /\ merged_df.rows[m].Population = files[PopulationPath].rows[j].Population

C9_Witness ==
    /\ pc = "merged" /\ ~estd
    /\ \E i \in DOMAIN files[CovidPath].rows, j \in DOMAIN files[PopulationPath].rows :
          /\ RawCountry(CovidPath, i) = "United States"
          /\ RawCountry(PopulationPath, j) = "US"
    /\ \E i \in DOMAIN files[CovidPath].rows, j \in DOMAIN files[PopulationPath].rows :
          /\ RawCountry(CovidPath, i) = "US"
          /\ RawCountry(PopulationPath, j) = "US"
    /\ Len(merged_df.rows) >= 2

\* C10: when the population path or the case path does not exist, load_data
\* raises FileNotFoundError naming a path that does not exist, has read no
\* file and returns no table.
C10_MissingFileBeforeRead ==
    (pc # "start" /\ (files[PopulationPath] = NoFile \/ files[CovidPath] = NoFile)) =>
        /\ pc = "failed"
        /\ error.kind = "FileNotFoundError"
        /\ error.arg \in {PopulationPath, CovidPath}
        /\ files[error.arg] = NoFile
        /\ files_read = <<>>
        /\ population_df = NoTable /\ covid_df = NoTable

C10_Witness ==
    /\ pc = "failed"
    /\ files[PopulationPath] # NoFile /\ files[CovidPath] = NoFile
    /\ error = Raise("FileNotFoundError", CovidPath)

RowsOf(df, k) == {i \in DOMAIN df.rows : df.rows[i].Country = k}

Rate(df, i) == df.rows[i].Cases_per_100k

\* C4: the table returned by calculate_per_capita has exactly one row per
\* distinct country of the merged input, and the date of that row is the
\* greatest date the country has in the input.
C4_OneRowPerCountryAtMaxDate ==
    pc = "calculated" =>
        /\ \A i \in DOMAIN per_capita_df.rows :
              RowsOf(merged_df, per_capita_df.rows[i].Country) # {}
        /\ \A k \in CountryNames(merged_df) :
              /\ Cardinality(RowsOf(per_capita_df, k)) = 1
              /\ \A i \in RowsOf(per_capita_df, k) :
                    /\ \A j \in RowsOf(merged_df, k) :
                          ToDatetime(merged_df.rows[j].Date) <= per_capita_df.rows[i].Date
                    /\ \E j \in RowsOf(merged_df, k) :
                          ToDatetime(merged_df.rows[j].Date) = per_capita_df.rows[i].Date

C4_Witness ==
    /\ pc = "calculated"
    /\ Len(per_capita_df.rows) = 2
    /\ \E i, j \in DOMAIN merged_df.rows :
          /\ i < j
          /\ merged_df.rows[i].Country = merged_df.rows[j].Country
          /\ ToDatetime(merged_df.rows[i].Date) > ToDatetime(merged_df.rows[j].Date)

\* C5: the table returned and written by calculate_per_capita is sorted by
\* rate descending: every row's rate is greater than or equal to the rate of
\* the row after it, also when a population is zero or missing.
C5_SortedDescending ==
    pc = "calculated" =>
        /\ \A i \in 1..(Len(per_capita_df.rows) - 1) :
              Geq(Rate(per_capita_df, i), Rate(per_capita_df, i + 1))
        /\ \A w \in DOMAIN written :
              written[w].path = PerCapitaPath => written[w].content = per_capita_df

\* C6: two countries with the same rate appear in the table returned in the
\* relative order their retained rows had in the merged input.
C6_StableSort ==
    pc = "calculated" =>
        \A i, j \in DOMAIN per_capita_df.rows :
            (i < j /\ Rate(per_capita_df, i) = Rate(per_capita_df, j)
                   /\ Rate(per_capita_df, i) # NaN) =>
                IdxMax(WithRates(merged_df), per_capita_df.rows[i].Country)
                    < IdxMax(WithRates(merged_df), per_capita_df.rows[j].Country)

\* C7: every row returned with a population above zero carries the rate of
\* its own count: a whole number of hundredths within half a hundredth of
\* Confirmed / Population * 100000, and the row is a row of the merged input.
C7_RateOfOwnRow ==
    pc = "calculated" =>
        \A i \in DOMAIN per_capita_df.rows :
            LET r == per_capita_df.rows[i]
                g == GCD(PerHundredThousand * Hundredths, r.Population)
                n == r.Confirmed * ((PerHundredThousand * Hundredths) \div g)
                d == r.Population \div g
            IN  /\ \E j \in DOMAIN merged_df.rows :
                      /\ merged_df.rows[j].Country = r.Country
                      /\ merged_df.rows[j].Confirmed = r.Confirmed
                      /\ merged_df.rows[j].Population = r.Population
                      /\ ToDatetime(merged_df.rows[j].Date) = r.Date
                /\ r.Population > 0 =>
                      /\ r.Cases_per_100k \in 0..(Inf - 1)
                      /\ 2 * (r.Cases_per_100k * d - n) <= d
                      /\ 2 * (n - r.Cases_per_100k * d) <= d

C7_Witness ==
    /\ pc = "calculated"
    /\ \E i \in DOMAIN per_capita_df.rows :
          /\ per_capita_df.rows[i].Confirmed = 2000
          /\ per_capita_df.rows[i].Population = 331000000
          /\ per_capita_df.rows[i].Cases_per_100k = 60
          /\ \E j \in DOMAIN merged_df.rows :
                /\ merged_df.rows[j].Country = per_capita_df.rows[i].Country
                /\ merged_df.rows[j].Confirmed = 2500
                /\ ToDatetime(merged_df.rows[j].Date) < per_capita_df.rows[i].Date
    /\ \E i \in DOMAIN per_capita_df.rows :
          /\ per_capita_df.rows[i].Confirmed = 2500
          /\ per_capita_df.rows[i].Cases_per_100k = 76

Wrote(path) == \E w \in DOMAIN written : written[w].path = path

\* a Date cell holding a string that is no YYYY-MM-DD date
BadDate(d) == d # NA /\ d \notin DOMAIN DayNumber

\* C12: when a merged row holds a date that does not parse as YYYY-MM-DD,
\* calculate_per_capita ends with an error, returns no rate table, the rate
\* file is not written and the chart is never made.
C12_UnparseableDateHalts ==
    (pc # "merged" /\ \E i \in DOMAIN merged_df.rows : BadDate(merged_df.rows[i].Date)) =>
        /\ pc = "failed"
        /\ error.kind = "ValueError"
        /\ per_capita_df = NoTable
        /\ ~Wrote(PerCapitaPath)
        /\ ~Wrote(BarplotPath)

C12_Witness ==
    /\ pc = "failed"
    /\ \E i, j \in DOMAIN merged_df.rows :
          /\ BadDate(merged_df.rows[i].Date)
          /\ merged_df.rows[j].Date \in DOMAIN DayNumber
          /\ merged_df.rows[i].Country = merged_df.rows[j].Country

\* C14: when a row of the merged table has a zero or missing population,
\* calculate_per_capita raises nothing and every country still has its row
\* in the rate table: a retained row with population zero carries an
\* infinite (or, for 0/0, not-a-number) rate and one with a missing
\* population a not-a-number rate.
C14_NoGuardOnPopulation ==
    (pc # "merged" /\ \E i \in DOMAIN merged_df.rows :
                          merged_df.rows[i].Population \in {0, NaN}) =>
        /\ pc = "calculated"
        /\ error = NoError
        /\ \A k \in CountryNames(merged_df) : RowsOf(per_capita_df, k) # {}
        /\ \A i \in DOMAIN per_capita_df.rows :
              /\ per_capita_df.rows[i].Population = 0 =>
                    Rate(per_capita_df, i) \in {Inf, NaN}
              /\ per_capita_df.rows[i].Population = NaN =>
                    Rate(per_capita_df, i) = NaN

C14_Witness ==
    /\ pc = "calculated"
    /\ \E i, j \in DOMAIN per_capita_df.rows :
          /\ per_capita_df.rows[i].Population = 0
          /\ Rate(per_capita_df, i) = Inf
          /\ per_capita_df.rows[j].Population = NaN
          /\ Rate(per_capita_df, j) = NaN

\* C15: calculate_per_capita leaves the merged table it is given as it was:
\* same rows in the same order, same columns, Date cells still unparsed and
\* no Cases_per_100k column.
C15_InputUnchanged ==
    [][pc = "merged" => merged_df' = merged_df]_vars

C15_Witness ==
    /\ pc = "calculated"
    /\ Len(merged_df.rows) > Len(per_capita_df.rows)
    /\ "Cases_per_100k" \in DOMAIN per_capita_df.cols
    /\ "Cases_per_100k" \notin DOMAIN merged_df.cols
    /\ \A i \in DOMAIN merged_df.rows : merged_df.rows[i].Date \in DOMAIN DayNumber

\* C17: when several rows of a country share its greatest date, the row
\* retained is the first of them in the order of the merged input.
C17_FirstOfTiedDates ==
    pc = "calculated" =>
        \A i \in DOMAIN per_capita_df.rows :
            LET tied == {j \in RowsOf(merged_df, per_capita_df.rows[i].Country) :
                            ToDatetime(merged_df.rows[j].Date) = per_capita_df.rows[i].Date}
                first == CHOOSE j \in tied : \A o \in tied : j <= o
            IN  /\ tied # {}
                /\ per_capita_df.rows[i].Confirmed = merged_df.rows[first].Confirmed
                /\ per_capita_df.rows[i].Population = merged_df.rows[first].Population

C17_Witness ==
    /\ pc = "calculated"
    /\ \E i, j \in DOMAIN merged_df.rows :
          /\ i < j
          /\ merged_df.rows[i].Country = merged_df.rows[j].Country
          /\ merged_df.rows[i].Date = "2021-01-02"
          /\ merged_df.rows[j].Date = "2021-01-02"
          /\ merged_df.rows[i].Confirmed # merged_df.rows[j].Confirmed
          /\ \E o \in DOMAIN per_capita_df.rows :
                /\ per_capita_df.rows[o].Country = merged_df.rows[i].Country
                /\ per_capita_df.rows[o].Confirmed = merged_df.rows[i].Confirmed

\* C18: calculate_per_capita completes normally on every merged table whose
\* dates all parse, the table without rows included: it returns a rate
\* table, writes it to the rate file, and never fails after the file was
\* written.
C18_CompletesOnEveryTable ==
    (pc # "merged" /\ \A i \in DOMAIN merged_df.rows : ~BadDate(merged_df.rows[i].Date)) =>
        /\ pc = "calculated"
        /\ error = NoError
        /\ per_capita_df # NoTable
        /\ \E w \in DOMAIN written :
              written[w].path = PerCapitaPath /\ written[w].content = per_capita_df

\* C16: explore_data raises ValueError when an invalid file selection is
\* made: once an entry that is no number, or a number that is not listed,
\* has been read, the call has ended with ValueError.
C16_InvalidSelectionRaises ==
    (sel.entries > 0 /\ ~Listed(sel.listing, sel.last)) =>
        (pc = "failed" /\ error.kind = "ValueError")

\* C13: name reconciliation has no side effect: after merging_datasets has
\* returned, the caller's population table and case table have the column
\* names and the country values they had when they were loaded.
C13_NoSideEffect ==
    AfterMerge =>
        /\ Columns(population_df) = Columns(files[PopulationPath])
        /\ Columns(covid_df) = Columns(files[CovidPath])
        /\ \A i \in DOMAIN population_df.rows :
              population_df.rows[i].Country = RawCountry(PopulationPath, i)
        /\ \A i \in DOMAIN covid_df.rows :
              covid_df.rows[i].Country = RawCountry(CovidPath, i)

\* a table has neither a 'Country' column nor an alias column
NoCountryColumn(df) == ~HasColumn(df, "Country") /\ FirstAlias(df, 1) = NA

\* C11: when a table has neither 'Country' nor an alias column, the merge
\* step on no path (merging_datasets with estandarized=True included) fails
\* with a key-lookup error.
C11_NoKeyLookupError ==
    (NoCountryColumn(files[PopulationPath]) \/ NoCountryColumn(files[CovidPath]))
        => error.kind # "KeyError"

\* data_standarization has returned to its caller
DSReturned ==
    \/ pc = "loaded" /\ std_calls > 0
    \/ ~estd /\ pc = "merged"
    \/ ~estd /\ pc = "failed" /\ error.kind \in {"ValueError", "KeyError"}

\* the names the file holds in the column that is labelled 'Country' now
OriginalNames(df, path) ==
    [i \in DOMAIN df.rows |-> files[path].rows[i][ColumnOf(df, "Country")]]

\* C19: whatever rounds of column selection occurred, data_standarization
\* returns only when both tables have a 'Country' column, and every
\* returned country value is the corrections table applied once to the
\* name the file held in that column.
C19_ReturnsStandardized ==
    DSReturned =>
        /\ HasColumn(population_df, "Country")
        /\ HasColumn(covid_df, "Country")
        /\ \A i \in DOMAIN population_df.rows :
              Cell(population_df, population_df.rows[i], "Country")
                  = Canonical(OriginalNames(population_df, PopulationPath)[i])
        /\ \A i \in DOMAIN covid_df.rows :
              Cell(covid_df, covid_df.rows[i], "Country")
                  = Canonical(OriginalNames(covid_df, CovidPath)[i])

\* data_standarization has returned after an invalid round and two renames,
\* through a nested column_standardization, with a corrected name in a
\* column the user chose
C19_Witness ==
    /\ DSReturned
    /\ cs.depth >= 1
    /\ cs.rounds >= 3
    /\ population_df.cols.Continent = "Country"
    /\ \E i \in DOMAIN population_df.rows :
          /\ OriginalNames(population_df, PopulationPath)[i] = "Burma"
          /\ Cell(population_df, population_df.rows[i], "Country") = "Myanmar"

\* C20: after any alias renames and interactive renames, no table has two
\* columns named 'Country'.
C20_AtMostOneCountry == ~Dup(population_df) /\ ~Dup(covid_df)

\* the paths listed to the user
ListedPaths == {sel.listing[i] : i \in DOMAIN sel.listing}

\* data_selection has returned a pair of paths
SelectionReturned == sel.population_data_dir # "" /\ sel.covid_data_dir # ""

Outputs == <<MergedPath, PerCapitaPath, BarplotPath>>

\* the step of main that writes an output file, by the position it starts at
WritingStep == [f \in {MergedPath, PerCapitaPath, BarplotPath} |->
                   CASE f = MergedPath -> "loaded"
                     [] f = PerCapitaPath -> "merged"
                     [] f = BarplotPath -> "calculated"]

\* the positions main can be at after a step started at a position
StepsAfter(at) ==
    CASE at = "select_population" -> {"select_population", "select_covid"}
      [] at = "select_covid" -> {"select_population", "loaded", "failed"}
      [] at = "loaded" -> {"merged", "failed"}
      [] at = "merged" -> {"calculated", "failed"}
      [] at = "calculated" -> {"done", "failed"}
      [] OTHER -> {}

\* C22: in every run of main the steps execute in the order load, merge,
\* rate calculation, visualization; the files written so far are always
\* the merged file, then the rate file, then the chart, each written by
\* its own step; and no step runs after a step has raised.
C22_StepsInOrder ==
    [][/\ error = NoError
       /\ pc' \in StepsAfter(pc)
       /\ \A i \in DOMAIN written' : written'[i].path = Outputs[i]
       /\ written' # written =>
             /\ Len(written') = Len(written) + 1
             /\ SubSeq(written', 1, Len(written)) = written
             /\ pc = WritingStep[written'[Len(written')].path]]_vars

\* a run of main that wrote the merged file, the rate file and the chart
C22_Witness ==
    /\ pc = "done"
    /\ error = NoError
    /\ [i \in DOMAIN written |-> written[i].path] = Outputs

====
